---- MODULE Spec2Model ----
(***************************************************************************)
(* A model of server_generate.py: the write ledger (WRITTEN_FILES,         *)
(* DIRS_CREATED, JAVA_PATH) with rollback()/fatal(), the install script    *)
(* that feeds it, and the two line patchers (the config.yml loop of        *)
(* get_spigot_geyser and the server.properties loop of the main script).   *)
(*                                                                         *)
(* Text is a sequence of one-character strings, so that Python's split,    *)
(* strip, lstrip and join are computed rather than assumed.                *)
(***************************************************************************)
EXTENDS Integers, Sequences, FiniteSets, TLC

VARIABLES
    \* ---- the install run ----
    pc,             \* position in the script: an index into Program, or a terminal label
    args,           \* the parsed command line (software, geyser, floodgate, java)
    fs0,            \* the paths that existed before the run
    fs,             \* the paths that exist now
    WRITTEN_FILES,  \* module-level list, line 20
    DIRS_CREATED,   \* module-level list, line 21
    JAVA_PATH,      \* module-level string, line 24 ("" when unset)
    created,        \* every path this run brought into existence
    rollbacks,      \* number of calls of rollback()
    attempted,      \* the deletions rollback() attempted, in order, with their outcome
    removed,        \* the paths rollback() removed
    status,         \* the process's exit status (-1 while running)
    \* ---- one run of a patch loop ----
    dialect,        \* "yaml" (get_spigot_geyser) or "props" (server.properties)
    overrides,      \* GEYSER_CONFIG or PROPERTIES
    tmpl,           \* the input lines read so far
    st,             \* the loop's local variables
    ppc             \* "loop", "done" (the file was saved) or "raised"

installVars == <<pc, args, fs0, fs, WRITTEN_FILES, DIRS_CREATED, JAVA_PATH,
                 created, rollbacks, attempted, removed, status>>
patchVars == <<dialect, overrides, tmpl, st, ppc>>
vars == <<installVars, patchVars>>

----------------------------------------------------------------------------
(* Bounds *)

\* Longest template a patch loop is run on.
MaxLines == 4
\* Most deletions that fail for a reason outside the model (permissions) in
\* one rollback; deletions also fail when the path is missing or not empty.
MaxDeleteFailures == 2

----------------------------------------------------------------------------
(* Python's str operations on sequences of characters *)

\* str.isspace characters that the templates can hold.
Whitespace == {" ", "\t", "\n", "\r"}

\* "c in s"
Contains(s, c) == \E i \in 1..Len(s) : s[i] = c

\* s.find(c) + 1: the position of the first c, 0 when there is none.
Find(s, c) ==
    IF Contains(s, c)
    THEN CHOOSE i \in 1..Len(s) : s[i] = c /\ \A j \in 1..(i - 1) : s[j] # c
    ELSE 0

\* s.rfind(c) + 1
RFind(s, c) ==
    IF Contains(s, c)
    THEN CHOOSE i \in 1..Len(s) : s[i] = c /\ \A j \in (i + 1)..Len(s) : s[j] # c
    ELSE 0

\* s.split(c, 1) for a string that holds c: <<before, after>>.
SplitOnce(s, c) ==
    LET i == Find(s, c)
    IN  <<SubSeq(s, 1, i - 1), SubSeq(s, i + 1, Len(s))>>

\* The number of leading whitespace characters: len(s) - len(s.lstrip()).
LeadingSpace(s) ==
    IF \A i \in 1..Len(s) : s[i] \in Whitespace
    THEN Len(s)
    ELSE (CHOOSE i \in 1..Len(s) :
              s[i] \notin Whitespace /\ \A j \in 1..(i - 1) : s[j] \in Whitespace) - 1

\* The number of trailing whitespace characters.
TrailingSpace(s) ==
    IF \A i \in 1..Len(s) : s[i] \in Whitespace
    THEN Len(s)
    ELSE Len(s) - (CHOOSE i \in 1..Len(s) :
              s[i] \notin Whitespace /\ \A j \in (i + 1)..Len(s) : s[j] \in Whitespace)

\* s.strip()
Strip(s) ==
    IF \A i \in 1..Len(s) : s[i] \in Whitespace
    THEN <<>>
    ELSE SubSeq(s, LeadingSpace(s) + 1, Len(s) - TrailingSpace(s))

\* " " * n
Spaces(n) == [i \in 1..n |-> " "]

\* "".join(lines)
RECURSIVE Concat(_)
Concat(lines) ==
    IF lines = <<>> THEN <<>> ELSE Head(lines) \o Concat(Tail(lines))

\* "\n".join(lines)
RECURSIVE JoinNewline(_)
JoinNewline(lines) ==
    IF lines = <<>> THEN <<>>
    ELSE IF Len(lines) = 1 THEN Head(lines)
    ELSE Head(lines) \o <<"\n">> \o JoinNewline(Tail(lines))

\* A dedent that leaves the level as it is.
KeepLevel(level) == level

\* ".".join(level.split(".")[:-1]): the text before the last ".", "" when
\* there is none.
PopLevel(level) == SubSeq(level, 1, RFind(level, ".") - 1)

----------------------------------------------------------------------------
(* The comment split both loops start with (lines 178-182, 512-516) *)

\* active_line
ActiveLine(line) ==
    IF Contains(line, "#") THEN SplitOnce(line, "#")[1] ELSE line

\* comment, where the line holds a "#" (None otherwise)
CommentText(line) == SplitOnce(line, "#")[2]

\* "if comment": the comment is neither None nor "".
CommentTruthy(line) == Contains(line, "#") /\ CommentText(line) # <<>>

----------------------------------------------------------------------------
(* The config.yml loop of get_spigot_geyser *)

\* level = "", prev_indent = 0, lines = [], key not yet bound. trace is the
\* branch taken for each line read, with the values the branch computed.
LoopStart ==
    [level |-> <<>>, prev_indent |-> 0, key |-> <<>>, key_bound |-> FALSE,
     lines |-> <<>>, trace |-> <<>>]

\* What one branch of a loop body leaves behind for a line.
Entry(kind, level, full_key, indent) ==
    [kind |-> kind, level |-> level, full_key |-> full_key, indent |-> indent]

\* The replacement built without the " " * indent in front.
ReplacementWithoutIndent(line, indent, key, value) ==
    key \o <<":", " ">> \o value
        \o (IF CommentTruthy(line) THEN <<" ", "#">> \o CommentText(line)
                                   ELSE <<"\n">>)

\* The line appended for a key that GEYSER_CONFIG holds (line 196).
GeyserReplacement(line, indent, key, value) ==
    Spaces(indent) \o key \o <<":", " ">> \o value
        \o (IF CommentTruthy(line) THEN <<" ", "#">> \o CommentText(line)
                                   ELSE <<"\n">>)

\* The level after the two indentation tests (lines 187-190).
GeyserLevel(s, indent) ==
    LET entered == IF indent > s.prev_indent
                   THEN s.level \o <<".">> \o s.key
                   ELSE s.level
    IN  IF indent < s.prev_indent THEN PopLevel(entered) ELSE entered

\* One iteration of "for line in f" (lines 177-200): the loop's variables
\* after it, or raised when line 188 reads key before any line bound it.
GeyserStep(s, line, config) ==
    LET active == ActiveLine(line)
        indent == LeadingSpace(line)
        level  == GeyserLevel(s, indent)
        kv     == SplitOnce(Strip(active), ":")
        key    == kv[1]
        true_key == level \o <<".">> \o key
        moved  == [s EXCEPT !.level = level, !.prev_indent = indent]
    IN  IF Strip(active) = <<>>
        THEN [raised |-> FALSE,
              st |-> [s EXCEPT !.lines = Append(@, line),
                               !.trace = Append(@, Entry("blank", s.level, <<>>, 0))]]
        ELSE IF indent > s.prev_indent /\ ~s.key_bound
        THEN [raised |-> TRUE, st |-> s]
        ELSE IF ~Contains(active, ":")
        THEN [raised |-> FALSE,
              st |-> [moved EXCEPT !.lines = Append(@, line),
                                   !.trace = Append(@, Entry("nokey", level, <<>>, indent))]]
        ELSE IF Tail(true_key) \in DOMAIN config
        THEN [raised |-> FALSE,
              st |-> [moved EXCEPT
                        !.key = key, !.key_bound = TRUE,
                        !.lines = Append(@, GeyserReplacement(line, indent, key,
                                                              config[Tail(true_key)])),
                        !.trace = Append(@, Entry("patched", level, Tail(true_key), indent))]]
        ELSE [raised |-> FALSE,
              st |-> [moved EXCEPT
                        !.key = key, !.key_bound = TRUE,
                        !.lines = Append(@, line),
                        !.trace = Append(@, Entry("kept", level, Tail(true_key), indent))]]

\* The whole loop over a file's lines.
RECURSIVE GeyserLoop(_, _, _)
GeyserLoop(s, lines, config) ==
    IF lines = <<>> THEN [raised |-> FALSE, st |-> s]
    ELSE LET r == GeyserStep(s, Head(lines), config)
         IN  IF r.raised THEN r ELSE GeyserLoop(r.st, Tail(lines), config)

----------------------------------------------------------------------------
(* The server.properties loop of the main script *)

\* The line appended for a key that PROPERTIES holds (line 520).
PropsReplacement(line, key, value) ==
    key \o <<"=">> \o value
        \o (IF CommentTruthy(line) THEN <<" ", "#">> \o CommentText(line) ELSE <<>>)

\* One iteration of "for line in lines" (lines 511-524): raised when line 518
\* unpacks the one-element result of split("=", 1).
PropsStep(s, line, props) ==
    LET active == ActiveLine(line)
        kv     == SplitOnce(active, "=")
        key    == kv[1]
    IN  IF Strip(active) = <<>>
        THEN [raised |-> FALSE,
              st |-> [s EXCEPT !.lines = Append(@, line),
                               !.trace = Append(@, Entry("blank", <<>>, <<>>, 0))]]
        ELSE IF ~Contains(active, "=")
        THEN [raised |-> TRUE, st |-> s]
        ELSE IF key \in DOMAIN props
        THEN [raised |-> FALSE,
              st |-> [s EXCEPT !.lines = Append(@, PropsReplacement(line, key, props[key])),
                               !.trace = Append(@, Entry("patched", <<>>, key, 0))]]
        ELSE [raised |-> FALSE,
              st |-> [s EXCEPT !.lines = Append(@, line),
                               !.trace = Append(@, Entry("kept", <<>>, key, 0))]]

\* The whole loop over the downloaded template's lines.
RECURSIVE PropsLoop(_, _, _)
PropsLoop(s, lines, props) ==
    IF lines = <<>> THEN [raised |-> FALSE, st |-> s]
    ELSE LET r == PropsStep(s, Head(lines), props)
         IN  IF r.raised THEN r ELSE PropsLoop(r.st, Tail(lines), props)

----------------------------------------------------------------------------
(* One run of a patch loop, a line at a time *)

\* Lines of an indented template, as iterating the extracted config.yml
\* yields them (each ends with its newline).
YamlLines ==
    { <<"a", ":", "\n">>,                                        \* a:
      <<" ", " ", "a", ":", "\n">>,                              \*   a:
      <<"b", ":", " ", "1", "\n">>,                              \* b: 1
      <<" ", " ", "b", ":", " ", "1", "\n">>,                    \*   b: 1
      <<" ", " ", "b", ":", " ", "1", " ", "#", "c", "\n">>,     \*   b: 1 #c
      <<" ", " ", " ", " ", "b", ":", " ", "1", " ", "#", "c", "\n">>,
      <<" ", " ", "-", " ", "x", "\n">>,                         \*   - x
      <<" ", " ", "#", "c", "\n">>,                              \*   #c
      <<"\n">> }

\* Values of GEYSER_CONFIG: dotted key paths to replacement text.
YamlConfigs ==
    { <<>>,
      (<<"a", ".", "b">> :> <<"5">>),
      (<<"b">> :> <<"7">>) @@ (<<"a", ".", "b">> :> <<"5">>)
          @@ (<<"a", ".", "a", ".", "b">> :> <<"9", "9">>) }

\* Lines of a flat template, as split("\n") yields them (no newline).
PropsLines ==
    { <<"a", "=", "1">>,
      <<"b", "=", "2">>,
      <<"a", "=", "1", " ", "#", "c">>,
      <<"#", "c">>,
      <<"f", "o", "o">>,
      <<>> }

\* Values of PROPERTIES: flat keys to replacement text. The texts come from
\* the command line as typed (args.motd, args.seed), line breaks included.
PropsMaps ==
    { <<>>,
      (<<"a">> :> <<"5">>),
      (<<"a">> :> <<"5">>) @@ (<<"b">> :> <<"6", "\n", "6">>) }

\* The install run's variables while only a patch loop is looked at.
InstallIdle ==
    /\ pc = 0
    /\ args = <<>>
    /\ fs0 = {}
    /\ fs = {}
    /\ WRITTEN_FILES = <<>>
    /\ DIRS_CREATED = <<>>
    /\ JAVA_PATH = ""
    /\ created = {}
    /\ rollbacks = 0
    /\ attempted = <<>>
    /\ removed = {}
    /\ status = -1

PatchInit ==
    /\ InstallIdle
    /\ \/ dialect = "yaml" /\ overrides \in YamlConfigs
       \/ dialect = "props" /\ overrides \in PropsMaps
    /\ tmpl = <<>>
    /\ st = LoopStart
    /\ ppc = "loop"

\* get_spigot_geyser reads the next line of config.yml (lines 177-200).
GeyserReadLine ==
    /\ dialect = "yaml" /\ ppc = "loop" /\ Len(tmpl) < MaxLines
    /\ \E line \in YamlLines :
         LET r == GeyserStep(st, line, overrides)
         IN  /\ tmpl' = Append(tmpl, line)
             /\ st' = r.st
             /\ ppc' = IF r.raised THEN "raised" ELSE "loop"
    /\ UNCHANGED <<dialect, overrides, installVars>>

\* The file is exhausted: save_file(config_file, "".join(lines)) (line 201).
GeyserSave ==
    /\ dialect = "yaml" /\ ppc = "loop"
    /\ ppc' = "done"
    /\ UNCHANGED <<dialect, overrides, tmpl, st, installVars>>

\* The main script takes the next line of the template (lines 511-524).
PropsReadLine ==
    /\ dialect = "props" /\ ppc = "loop" /\ Len(tmpl) < MaxLines
    /\ \E line \in PropsLines :
         LET r == PropsStep(st, line, overrides)
         IN  /\ tmpl' = Append(tmpl, line)
             /\ st' = r.st
             /\ ppc' = IF r.raised THEN "raised" ELSE "loop"
    /\ UNCHANGED <<dialect, overrides, installVars>>

\* The list is exhausted: save_file(..., "\n".join(new_lines) + ...) (line 525).
PropsSave ==
    /\ dialect = "props" /\ ppc = "loop"
    /\ ppc' = "done"
    /\ UNCHANGED <<dialect, overrides, tmpl, st, installVars>>

PatchNext == GeyserReadLine \/ GeyserSave \/ PropsReadLine \/ PropsSave

PatchSpec == PatchInit /\ [][PatchNext]_vars

\* The text save_file is given: "".join(lines) for config.yml, and
\* "\n".join(new_lines), before the generator's trailer, for server.properties.
PatchedText == IF dialect = "yaml" THEN Concat(st.lines) ELSE JoinNewline(st.lines)

\* The text the loop was given.
TemplateText == IF dialect = "yaml" THEN Concat(tmpl) ELSE JoinNewline(tmpl)

----------------------------------------------------------------------------
(* The filesystem under the server directory, args.directory = "srv/mc" *)

\* The paths makedirs(directory) walks through (lines 140-143).
DirectoryParts == <<"srv/", "srv/mc/">>
Directory == "srv/mc/"
Plugins == "srv/mc/plugins/"
Mods == "srv/mc/mods/"
GeyserJar == "srv/mc/plugins/Geyser-Spigot.jar"
GeyserDir == "srv/mc/plugins/Geyser-Spigot/"
ConfigFile == "srv/mc/plugins/Geyser-Spigot/config.yml"
FloodgateJar == "srv/mc/plugins/Floodgate-Spigot.jar"
StartScript == "srv/mc/start.sh"
PropertiesFile == "srv/mc/server.properties"
EulaFile == "srv/mc/eula.txt"
\* os.path.join(directory, root), root being the archive's top directory.
Adoptium == "srv/mc/jdk/"
\* What tar.extractall(directory) unpacks (line 240).
AdoptiumTree == {"srv/mc/jdk/", "srv/mc/jdk/bin/", "srv/mc/jdk/bin/java"}

\* The directory each path lies in ("" for the top).
ParentOf ==
    ("srv/" :> "") @@ ("srv/mc/" :> "srv/")
    @@ ("srv/mc/paper.jar" :> Directory) @@ ("srv/mc/spigot.jar" :> Directory)
    @@ ("srv/mc/vanilla.jar" :> Directory) @@ ("srv/mc/server.jar" :> Directory)
    @@ ("srv/mc/fabric.jar" :> Directory)
    @@ (Plugins :> Directory) @@ (GeyserJar :> Plugins) @@ (GeyserDir :> Plugins)
    @@ (ConfigFile :> GeyserDir) @@ (FloodgateJar :> Plugins)
    @@ (Mods :> Directory) @@ ("srv/mc/mods/fabric-api.jar" :> Mods)
    @@ ("srv/mc/mods/Geyser-Fabric.jar" :> Mods)
    @@ ("srv/mc/mods/Floodgate-Fabric.jar" :> Mods)
    @@ (StartScript :> Directory) @@ (PropertiesFile :> Directory)
    @@ (EulaFile :> Directory)
    @@ ("srv/mc/jdk/" :> Directory) @@ ("srv/mc/jdk/bin/" :> "srv/mc/jdk/")
    @@ ("srv/mc/jdk/bin/java" :> "srv/mc/jdk/bin/")

AllPaths == DOMAIN ParentOf

\* p lies somewhere beneath directory d.
RECURSIVE Beneath(_, _)
Beneath(p, d) ==
    /\ p \in AllPaths
    /\ ParentOf[p] # ""
    /\ (ParentOf[p] = d \/ Beneath(ParentOf[p], d))

\* os.listdir(d) is not empty.
NotEmpty(d, files) == \E p \in files : ParentOf[p] = d

\* The states of the disk a run can start from: what a user may have left
\* in or above the server directory.
InitialDisks ==
    { {},
      {"srv/"},
      {"srv/", Directory},
      {"srv/", Directory, StartScript},
      {"srv/", Directory, Plugins},
      {"srv/", Directory, Plugins, StartScript} }

----------------------------------------------------------------------------
(* rollback() *)

RECURSIVE Reverse(_)
Reverse(seq) ==
    IF seq = <<>> THEN <<>> ELSE Append(Reverse(Tail(seq)), Head(seq))

Range(seq) == {seq[i] : i \in 1..Len(seq)}

\* The sets of at most k paths among entries.
RECURSIVE FailSets(_, _)
FailSets(entries, k) ==
    IF k = 0 THEN {{}}
    ELSE LET fewer == FailSets(entries, k - 1)
         IN  fewer \cup {S \cup {p} : S \in fewer, p \in entries}

\* One attempted deletion.
Attempt(op, path, ok) == [op |-> op, path |-> path, ok |-> ok]

\* shutil.rmtree(JAVA_PATH) (line 48): the tree goes unless the call raises.
RmtreeResult(path, disk, denied) ==
    LET ok == path \in disk /\ path \notin denied
    IN  [ok |-> ok,
         gone |-> IF ok THEN {p \in disk : p = path \/ Beneath(p, path)} ELSE {}]

\* os.remove(file) (line 53).
RemoveResult(path, disk, denied) ==
    LET ok == path \in disk /\ path \notin denied
    IN  [ok |-> ok, gone |-> IF ok THEN {path} ELSE {}]

\* rmdir done as rmtree would do it: whatever lies in the directory goes too.
RmdirAsRmtree(path, disk, denied) ==
    LET ok == path \in disk /\ path \notin denied
    IN  [ok |-> ok,
         gone |-> IF ok THEN {p \in disk : p = path \/ Beneath(p, path)} ELSE {}]

\* os.rmdir(directory) (line 58): raises on a directory that is not empty.
RmdirResult(path, disk, denied) ==
    LET ok == path \in disk /\ ~NotEmpty(path, disk) /\ path \notin denied
    IN  [ok |-> ok, gone |-> IF ok THEN {path} ELSE {}]

\* The directories taken in creation order: reversed() left out.
CreationOrder(dirs) == dirs

\* The order the directory loop takes DIRS_CREATED in (line 56).
RollbackOrder(dirs) == Reverse(dirs)

\* A loop without its try/except: the first deletion that raises ends it.
AbortOnFailure(ok, rest) == IF ok THEN rest ELSE <<>>

\* What a loop of rollback() still visits after a deletion: every except
\* clause only prints (lines 49-50, 54-55, 59-60), so the loop goes on.
RemainingAfter(ok, rest) == rest

\* One of rollback()'s loops: the attempts over todo, starting from acc.
RECURSIVE DeleteEach(_, _, _, _)
DeleteEach(op, todo, acc, denied) ==
    IF todo = <<>> THEN acc
    ELSE LET r == IF op = "remove" THEN RemoveResult(Head(todo), acc.disk, denied)
                                   ELSE RmdirResult(Head(todo), acc.disk, denied)
             next == [log  |-> Append(acc.log, Attempt(op, Head(todo), r.ok)),
                      disk |-> acc.disk \ r.gone]
         IN  DeleteEach(op, RemainingAfter(r.ok, Tail(todo)), next, denied)

\* rollback() (lines 44-61) on a disk where the deletions of the paths in
\* denied are refused: the attempts made and the disk left.
Rollback(java, files, dirs, disk, denied) ==
    LET tree == RmtreeResult(java, disk, denied)
        afterJava == IF java # ""
                     THEN [log |-> <<Attempt("rmtree", java, tree.ok)>>,
                           disk |-> disk \ tree.gone]
                     ELSE [log |-> <<>>, disk |-> disk]
        afterFiles == DeleteEach("remove", files, afterJava, denied)
    IN  DeleteEach("rmdir", RollbackOrder(dirs), afterFiles, denied)

\* What rollback() tries to delete.
Targets(java, files, dirs) ==
    Range(files) \cup Range(dirs) \cup (IF java # "" THEN {java} ELSE {})

----------------------------------------------------------------------------
(* The install script *)

\* The command lines looked at. The version asked for is the latest one, so
\* that lines 338-341 leave --geyser and --floodgate as given.
ArgSets ==
    [software : {"paper", "spigot", "vanilla", "fabric"},
     geyser : BOOLEAN, floodgate : BOOLEAN, java : BOOLEAN]

\* args.geyser and args.floodgate after lines 336-345.
WantsGeyser(a) == (a.geyser \/ a.floodgate) /\ a.software # "vanilla"
WantsFloodgate(a) == a.floodgate /\ a.software # "vanilla"

Step(op, path) == [op |-> op, path |-> path]

\* get_spigot_geyser (lines 162-202), call by call.
GeyserSteps ==
    << Step("makedirs", Plugins), Step("fetch", ""), Step("save", GeyserJar),
       Step("unzip", ""), Step("patchconfig", ""), Step("save", ConfigFile) >>

\* get_spigot_floodgate (lines 203-208).
FloodgateSteps ==
    << Step("makedirs", Plugins), Step("fetch", ""), Step("save", FloodgateJar) >>

\* The Fabric branch's own Geyser and Floodgate installation (lines 464-499).
FabricGeyserSteps(a) ==
    << Step("fetch", ""), Step("makedirs", Mods), Step("scrape", ""),
       Step("fetch", ""), Step("save", "srv/mc/mods/fabric-api.jar"),
       Step("fetch", ""), Step("save", "srv/mc/mods/Geyser-Fabric.jar") >>
    \o (IF WantsFloodgate(a)
        THEN << Step("fetch", ""), Step("save", "srv/mc/mods/Floodgate-Fabric.jar") >>
        ELSE <<>>)

\* The branch of the chosen software (lines 377-502), up to and including
\* the startup script.
SoftwareSteps(a) ==
    (CASE a.software = "paper" ->
            << Step("fetch", ""), Step("save", "srv/mc/paper.jar") >>
       [] a.software = "spigot" ->
            << Step("fetch", ""), Step("save", "srv/mc/spigot.jar") >>
       [] a.software = "vanilla" ->
            << Step("fetch", ""), Step("save", "srv/mc/vanilla.jar") >>
       [] a.software = "fabric" ->
            << Step("fetch", ""), Step("save", "srv/mc/server.jar"),
               Step("fetch", ""), Step("save", "srv/mc/fabric.jar") >>)
    \o (IF a.software \in {"paper", "spigot"}
        THEN (IF WantsGeyser(a) THEN GeyserSteps ELSE <<>>)
             \o (IF WantsFloodgate(a) THEN FloodgateSteps ELSE <<>>)
        ELSE IF a.software = "fabric" /\ WantsGeyser(a)
        THEN FabricGeyserSteps(a)
        ELSE <<>>)
    \o << Step("save", StartScript) >>

\* The main script (lines 272-533) as the calls it makes, in order.
Program(a) ==
    << Step("validate", ""), Step("fetch", ""), Step("checkdir", "") >>
    \o (IF a.java THEN << Step("adoptium", "") >> ELSE <<>>)
    \o SoftwareSteps(a)
    \o << Step("fetch", ""), Step("patchproperties", ""), Step("save", PropertiesFile),
          Step("save", EulaFile), Step("finish", "") >>

\* The script is at a call of this kind.
At(op) == pc > 0 /\ Program(args)[pc].op = op

\* GEYSER_CONFIG and PROPERTIES as lines 287-321 fill them.
GEYSER_CONFIG ==
    (<<"b">> :> <<"7">>) @@ (<<"a", ".", "b">> :> <<"5">>)
PROPERTIES ==
    (<<"a">> :> <<"5">>) @@ (<<"b">> :> <<"6", "6">>)

\* Contents of the config.yml found in the Geyser jar.
ConfigTemplates ==
    { << <<"a", ":", "\n">>,
         <<" ", " ", "b", ":", " ", "1", " ", "#", "c", "\n">>,
         <<"b", ":", " ", "1", "\n">> >>,
      << <<" ", " ", "b", ":", " ", "1", "\n">>,
         <<"a", ":", "\n">> >> }

\* Bodies served by https://server.properties/, split at "\n" (line 508).
PropertiesDownloads ==
    { << <<"#", "c">>, <<"#", "c">>, <<"a", "=", "1">>, <<"b", "=", "2">>,
         <<>>, <<>>, <<>>, <<>> >>,
      << <<"#", "c">>, <<"#", "c">>, <<"a", "=", "1">>, <<"f", "o", "o">>,
         <<>>, <<>>, <<>>, <<>> >>,
      << <<"a", "=", "1">>, <<>>, <<>>, <<>>, <<>> >> }

\* lines = ...split("\n")[:-4] (line 508)
DropLastFour(lines) == SubSeq(lines, 1, Len(lines) - 4)

\* lines[1] = "#" + get_mojang_timestamp() (line 509), for a list long enough
StampSecond(lines) == [lines EXCEPT ![2] = <<"#", "t">>]

\* The patch loops hold still while the install script runs.
PatchIdle ==
    /\ dialect = "none"
    /\ overrides = <<>>
    /\ tmpl = <<>>
    /\ st = LoopStart
    /\ ppc = "idle"

Init ==
    /\ pc = 1
    /\ args \in ArgSets
    /\ fs0 \in InitialDisks
    /\ fs = fs0
    /\ WRITTEN_FILES = <<>>
    /\ DIRS_CREATED = <<>>
    /\ JAVA_PATH = ""
    /\ created = {}
    /\ rollbacks = 0
    /\ attempted = <<>>
    /\ removed = {}
    /\ status = -1
    /\ PatchIdle

\* fatal(message) (lines 32-36) with the ledger and disk as given:
\* rollback(), then sys.exit(1).
fatal(files, dirs, disk) ==
    \E denied \in FailSets(Targets(JAVA_PATH, files, dirs), MaxDeleteFailures) :
        LET r == Rollback(JAVA_PATH, files, dirs, disk, denied)
        IN  /\ WRITTEN_FILES' = files
            /\ DIRS_CREATED' = dirs
            /\ fs' = r.disk
            /\ attempted' = r.log
            /\ removed' = disk \ r.disk
            /\ rollbacks' = rollbacks + 1
            /\ status' = 1
            /\ pc' = 0
            /\ UNCHANGED <<args, fs0, JAVA_PATH, patchVars>>

\* An exception nothing catches: the interpreter prints it and exits with 1.
uncaught ==
    /\ status' = 1
    /\ pc' = 0
    /\ UNCHANGED <<args, fs0, fs, WRITTEN_FILES, DIRS_CREATED, JAVA_PATH, created,
                   rollbacks, attempted, removed, patchVars>>

\* The call returns and leaves disk and ledger as they are.
proceed ==
    /\ pc' = pc + 1
    /\ UNCHANGED <<args, fs0, fs, WRITTEN_FILES, DIRS_CREATED, JAVA_PATH, created,
                   rollbacks, attempted, removed, status, patchVars>>

\* Lines 274-321: the checks of the RAM sizes, the ports, the player count,
\* the gamemode and the difficulty.
Validate ==
    /\ At("validate")
    /\ \/ proceed
       \/ fatal(WRITTEN_FILES, DIRS_CREATED, fs) /\ UNCHANGED created

\* get_url and the checks of what it returned (lines 92-100, and for
\* instance 379-401): either the script goes on or fatal is called.
Fetch ==
    /\ At("fetch")
    /\ \/ proceed
       \/ fatal(WRITTEN_FILES, DIRS_CREATED, fs) /\ UNCHANGED created

\* re.search(...).group() on a page that holds no match (line 473).
Scrape ==
    /\ At("scrape")
    /\ \/ proceed
       \/ uncaught

\* makedirs(path) (lines 139-149): the missing parts are made and recorded
\* one by one, until one mkdir is refused.
makedirs(parts) ==
    LET missing == SelectSeq(parts, LAMBDA d : d \notin fs)
    IN  \E k \in 0..Len(missing) :
          LET made == SubSeq(missing, 1, k)
          IN  /\ created' = created \cup Range(made)
              /\ IF k = Len(missing)
                 THEN /\ fs' = fs \cup Range(made)
                      /\ DIRS_CREATED' = DIRS_CREATED \o made
                      /\ pc' = pc + 1
                      /\ UNCHANGED <<args, fs0, WRITTEN_FILES, JAVA_PATH, rollbacks,
                                     attempted, removed, status, patchVars>>
                 ELSE fatal(WRITTEN_FILES, DIRS_CREATED \o made, fs \cup Range(made))

MakeDirs ==
    /\ At("makedirs")
    /\ makedirs(Append(DirectoryParts, Program(args)[pc].path))

\* Lines 355-364.
CheckDirectory ==
    /\ At("checkdir")
    /\ IF Directory \in fs
       THEN \/ proceed
            \/ /\ NotEmpty(Directory, fs)     \* no --force-create, and "n" at the prompt
               /\ status' = 0
               /\ pc' = 0
               /\ UNCHANGED <<args, fs0, fs, WRITTEN_FILES, DIRS_CREATED, JAVA_PATH,
                              created, rollbacks, attempted, removed, patchVars>>
       ELSE makedirs(DirectoryParts)

\* save_file(path, content) (lines 130-137).
SaveFile ==
    /\ At("save")
    /\ LET path == Program(args)[pc].path
       IN  \/ /\ fs' = fs \cup {path}
              /\ created' = created \cup ({path} \ fs)
              /\ WRITTEN_FILES' = Append(WRITTEN_FILES, path)
              /\ pc' = pc + 1
              /\ UNCHANGED <<args, fs0, DIRS_CREATED, JAVA_PATH, rollbacks, attempted,
                             removed, status, patchVars>>
           \/ fatal(WRITTEN_FILES, DIRS_CREATED, fs) /\ UNCHANGED created

\* JAVA_PATH = get_adoptium(directory, ...) (lines 366-373, 210-243).
InstallAdoptium ==
    /\ At("adoptium")
    /\ \/ /\ fs' = fs \cup AdoptiumTree
          /\ created' = created \cup (AdoptiumTree \ fs)
          /\ JAVA_PATH' = Adoptium
          /\ pc' = pc + 1
          /\ UNCHANGED <<args, fs0, WRITTEN_FILES, DIRS_CREATED, rollbacks, attempted,
                         removed, status, patchVars>>
       \/ fatal(WRITTEN_FILES, DIRS_CREATED, fs) /\ UNCHANGED created
       \/ uncaught                            \* line 233: neither pattern matched

\* Lines 169-172: config.yml is extracted from the jar and its path appended.
Unzip ==
    /\ At("unzip")
    /\ \/ /\ fs' = fs \cup {GeyserDir, ConfigFile}
          /\ created' = created \cup ({GeyserDir, ConfigFile} \ fs)
          /\ WRITTEN_FILES' = Append(WRITTEN_FILES, ConfigFile)
          /\ pc' = pc + 1
          /\ UNCHANGED <<args, fs0, DIRS_CREATED, JAVA_PATH, rollbacks, attempted,
                         removed, status, patchVars>>
       \/ uncaught                            \* the jar holds no config.yml

\* Lines 173-200 inside the install run.
PatchConfig ==
    /\ At("patchconfig")
    /\ \E template \in ConfigTemplates :
          IF GeyserLoop(LoopStart, template, GEYSER_CONFIG).raised
          THEN uncaught
          ELSE proceed

\* Lines 508-524 inside the install run.
PatchProperties ==
    /\ At("patchproperties")
    /\ \E body \in PropertiesDownloads :
          LET lines == DropLastFour(body)
          IN  IF Len(lines) < 2
              THEN uncaught                   \* line 509: IndexError
              ELSE IF PropsLoop(LoopStart, StampSecond(lines), PROPERTIES).raised
              THEN uncaught
              ELSE proceed

\* Line 533: the script ends.
Finish ==
    /\ At("finish")
    /\ status' = 0
    /\ pc' = 0
    /\ UNCHANGED <<args, fs0, fs, WRITTEN_FILES, DIRS_CREATED, JAVA_PATH, created,
                   rollbacks, attempted, removed, patchVars>>

Next ==
    \/ Validate \/ Fetch \/ Scrape \/ MakeDirs \/ CheckDirectory \/ SaveFile
    \/ InstallAdoptium \/ Unzip \/ PatchConfig \/ PatchProperties \/ Finish

Spec == Init /\ [][Next]_vars

----------------------------------------------------------------------------
(* Claims about the ledger and rollback(), under Spec *)

Recorded == Range(WRITTEN_FILES) \cup Range(DIRS_CREATED)

\* C1: when a directory b nested under a directory a is recorded in
\* DIRS_CREATED after a, rollback() attempts to delete b before a.
C1_NestedDirectoryDeletedFirst ==
    rollbacks > 0 =>
        \A i, j \in 1..Len(DIRS_CREATED) :
            (i < j /\ Beneath(DIRS_CREATED[j], DIRS_CREATED[i])) =>
                \E m, n \in 1..Len(attempted) :
                    /\ m < n
                    /\ attempted[m] = Attempt("rmdir", DIRS_CREATED[j], attempted[m].ok)
                    /\ attempted[n] = Attempt("rmdir", DIRS_CREATED[i], attempted[n].ok)

\* A rollback of directories recorded by two makedirs calls: the server
\* directory's parts, then plugins/ inside it.
C1_Witness ==
    /\ rollbacks = 1
    /\ DIRS_CREATED = <<"srv/", Directory, Plugins>>

C3_LedgerIsWhatTheRunCreated ==
    rollbacks = 0 => Recorded = created

\* C4: whichever deletions fail, rollback() attempts every recorded file and
\* every recorded directory, once per entry, and returns, so that fatal()
\* goes on to exit.
C4_EveryEntryAttempted ==
    rollbacks > 0 =>
        /\ \A i \in 1..Len(WRITTEN_FILES) :
              \E m \in 1..Len(attempted) :
                  attempted[m] = Attempt("remove", WRITTEN_FILES[i], attempted[m].ok)
        /\ \A i \in 1..Len(DIRS_CREATED) :
              \E m \in 1..Len(attempted) :
                  attempted[m] = Attempt("rmdir", DIRS_CREATED[i], attempted[m].ok)
        /\ Len(attempted) = Len(WRITTEN_FILES) + Len(DIRS_CREATED)
                              + (IF JAVA_PATH # "" THEN 1 ELSE 0)
        /\ status = 1

\* A rollback in which a file's deletion failed, and a later file and a
\* directory were deleted all the same.
C4_Witness ==
    /\ rollbacks = 1
    /\ \E i, j, k \in 1..Len(attempted) :
          /\ i < j /\ j < k
          /\ attempted[i].op = "remove" /\ ~attempted[i].ok
          /\ attempted[j].op = "remove" /\ attempted[j].ok
          /\ attempted[k].op = "rmdir" /\ attempted[k].ok

\* C5: a run that ends with a non-zero status has called rollback() exactly
\* once; no run calls it twice; a run that ends with status 0 never called it.
C5_RollbackOnceOnEveryFailure ==
    /\ rollbacks <= 1
    /\ status > 0 => rollbacks = 1
    /\ status = 0 => rollbacks = 0

----------------------------------------------------------------------------
(* Claims about the patch loops, under PatchSpec *)

\* The loop is over: the file was saved, or an exception left the loop.
PatchEnded == ppc \in {"done", "raised"}

\* The number of line ends of a text.
LineCount(text) == Cardinality({i \in 1..Len(text) : text[i] = "\n"})

\* C6: whatever the template and the override map, the patch produces an
\* output, with one line per input line and as many lines as the template.
C6_LineCountPreserved ==
    PatchEnded =>
        /\ ppc = "done"
        /\ Len(st.lines) = Len(tmpl)
        /\ LineCount(PatchedText) = LineCount(TemplateText)

\* C7: whatever the template and the override map, the patch produces an
\* output in which every blank line, every comment line and every line
\* whose derived key is not in the override map is the input line.
C7_UnmatchedLinesIdentical ==
    PatchEnded =>
        /\ ppc = "done"
        /\ \A i \in 1..Len(tmpl) :
              (\/ Strip(ActiveLine(tmpl[i])) = <<>>
               \/ st.trace[i].full_key \notin DOMAIN overrides)
                  => st.lines[i] = tmpl[i]

\* The leading whitespace of a line, as written.
Indentation(line) == SubSeq(line, 1, LeadingSpace(line))

\* The text between the indentation of a line and its first ":".
KeyText(line) == SubSeq(line, LeadingSpace(line) + 1, Find(line, ":") - 1)

C9_FlatSubstitutionAndIdentity ==
    (dialect = "props" /\ PatchEnded) =>
        /\ ppc = "done"
        /\ \A i \in 1..Len(tmpl) :
              LET active == ActiveLine(tmpl[i])
                  key == SplitOnce(active, "=")[1]
              IN  (Contains(active, "=") /\ key \in DOMAIN overrides) =>
                      st.lines[i] =
                          key \o <<"=">> \o overrides[key]
                              \o SubSeq(tmpl[i], Len(active) - TrailingSpace(active) + 1,
                                        Len(tmpl[i]))
        /\ DOMAIN overrides = {} => PatchedText = TemplateText

\* Line p holds a key, line s has p's indentation, and what lies between
\* them is a block of lines at one deeper indentation (and blank lines).
BlockBetween(p, s) ==
    /\ p + 1 < s
    /\ Contains(ActiveLine(tmpl[p]), ":")
    /\ Strip(ActiveLine(tmpl[p])) # <<>>
    /\ Strip(ActiveLine(tmpl[s])) # <<>>
    /\ LeadingSpace(tmpl[s]) = LeadingSpace(tmpl[p])
    /\ \E m \in (p + 1)..(s - 1) :
          /\ Strip(ActiveLine(tmpl[m])) # <<>>
          /\ LeadingSpace(tmpl[m]) > LeadingSpace(tmpl[p])
          /\ \A n \in (p + 1)..(s - 1) :
                \/ Strip(ActiveLine(tmpl[n])) = <<>>
                \/ LeadingSpace(tmpl[n]) = LeadingSpace(tmpl[m])

\* C10: a line dedented back to the indentation of the key line that opened
\* the block before it is evaluated at that key line's level: its full key
\* is that level and its own key, without the key of the block just left.
C10_DedentRestoresLevel ==
    dialect = "yaml" =>
        \A p, s \in 1..Len(st.trace) :
            BlockBetween(p, s) =>
                /\ st.trace[s].level = st.trace[p].level
                /\ Contains(ActiveLine(tmpl[s]), ":") =>
                      st.trace[s].full_key =
                          Tail(st.trace[p].level \o <<".">> \o KeyText(tmpl[s]))

\* "a:", a block of two lines, then "b: 1" patched under its own key b.
C10_Witness ==
    /\ dialect = "yaml"
    /\ Len(st.lines) = 4
    /\ tmpl[1] = <<"a", ":", "\n">>
    /\ LeadingSpace(tmpl[2]) = 2 /\ st.trace[2].level = <<".", "a">>
    /\ LeadingSpace(tmpl[3]) = 2 /\ st.trace[3].level = <<".", "a">>
    /\ tmpl[4] = <<"b", ":", " ", "1", "\n">>
    /\ st.trace[4].full_key = <<"b">>
    /\ st.lines[4] = <<"b", ":", " ", "7", "\n">>

\* The separator a line of the dialect needs to hold a key.
Separator == IF dialect = "yaml" THEN ":" ELSE "="

\* Line i is not blank once its comment is gone, and holds no key the loop
\* can use: it has no separator, or it is an indented first line of config.yml.
Unusable(i) ==
    /\ Strip(ActiveLine(tmpl[i])) # <<>>
    /\ \/ ~Contains(ActiveLine(tmpl[i]), Separator)
       \/ /\ dialect = "yaml"
          /\ LeadingSpace(tmpl[i]) > 0
          /\ \A j \in 1..(i - 1) : Strip(ActiveLine(tmpl[j])) = <<>>

\* C11: patching never raises, and every line that is not blank but holds
\* no usable key is emitted as it was read, the loop going on after it.
C11_PatchingNeverRaises ==
    /\ ppc # "raised"
    /\ \A i \in 1..Len(tmpl) :
          Unusable(i) => (i <= Len(st.lines) /\ st.lines[i] = tmpl[i])

\* A deletion rollback() attempted was refused: it failed on a path that is
\* still there and, for a directory, holds nothing. (The directory loop
\* goes from the last directory made to the first, and nothing is deleted
\* inside a directory once its own removal was attempted.)
Blocked(a) ==
    /\ ~a.ok
    /\ a.path \in fs
    /\ a.op = "rmdir" => ~NotEmpty(a.path, fs)

\* os.rmdir failed on a recorded directory that still holds something.
FailedNonEmpty(a) ==
    /\ a.op = "rmdir"
    /\ ~a.ok
    /\ a.path \in fs
    /\ NotEmpty(a.path, fs)

\* The run made p, and p lies inside a directory the run recorded.
MadeInsideRecorded(p) ==
    /\ p \in created
    /\ \E d \in Range(DIRS_CREATED) : Beneath(p, d)

\* C12: after a fatal error whose rollback met no refused deletion, no
\* removal of a recorded directory failed on a directory that is not empty,
\* and nothing the run made inside a recorded directory is left on the disk
\* (from which the claim concludes that the disk is as it was before).
C12_RollbackLeavesNothingInside ==
    (/\ rollbacks = 1
     /\ \A i \in 1..Len(attempted) : ~Blocked(attempted[i]))
        => /\ \A i \in 1..Len(attempted) : ~FailedNonEmpty(attempted[i])
           /\ \A p \in AllPaths : MadeInsideRecorded(p) => p \notin fs

\* Line i of the template is not blank once its comment is gone.
NonBlank(i) == Strip(ActiveLine(tmpl[i])) # <<>>

\* Line j is the non-blank line immediately before the non-blank line i,
\* and line i is indented more than it.
EntersBlock(j, i) ==
    /\ j < i
    /\ NonBlank(j) /\ NonBlank(i)
    /\ \A k \in (j + 1)..(i - 1) : ~NonBlank(k)
    /\ LeadingSpace(tmpl[i]) > LeadingSpace(tmpl[j])

\* C13: in the indented dialect, when a non-blank line is indented more than
\* the non-blank line before it, the key pushed onto the level is the key of
\* that line before it, so that the deeper line is evaluated at that line's
\* level followed by that line's key, and its full key is that followed by
\* its own key.
C13_PushedKeyIsPrecedingLinesKey ==
    dialect = "yaml" =>
        \A i \in 1..Len(st.trace) : \A j \in 1..Len(st.trace) :
            EntersBlock(j, i) =>
                /\ Contains(ActiveLine(tmpl[j]), ":")
                /\ st.trace[i].level =
                      st.trace[j].level \o <<".">> \o KeyText(tmpl[j])
                /\ Contains(ActiveLine(tmpl[i]), ":") =>
                      st.trace[i].full_key =
                          Tail(st.trace[j].level \o <<".">> \o KeyText(tmpl[j])
                                   \o <<".">> \o KeyText(tmpl[i]))

====
